---- MODULE Spec2Model ----
(***************************************************************************)
(* smart-skeleton: the traversal-and-classification engine of             *)
(* src/src/skeleton.ts, the DOM helpers of src/src/utils/dom.ts and the    *)
(* state cache of src/utils/restore.ts (src/unnamed/part_001).             *)
(*                                                                         *)
(* The live document is one tree of elements.  An element is a record      *)
(*   uid    its identity (the key of the WeakMap cache)                    *)
(*   tag    its tag name, lower case                                       *)
(*   cls    its classList, an ordered list without duplicates              *)
(*   attrs  its attributes other than class and style, name -> value       *)
(*   text   the length of its own trimmed direct text (0: none)            *)
(*   kids   its element children, in document order                        *)
(*   css    its resolved style: display, visibility, width, height, as     *)
(*          window.getComputedStyle reports them (px numbers, or NaN for   *)
(*          a value parseFloat cannot read, such as "auto")                *)
(*   inline its style attribute (set on placeholder blocks only)           *)
(* Serialising an element (innerHTML getter) keeps everything but uid;     *)
(* parsing (innerHTML setter) creates elements with fresh identities.      *)
(* The resolved style of an element is fixed by its markup and the page's  *)
(* style sheets: a re-created element resolves to the style of the one it  *)
(* was serialised from, and the skeleton classes do not change it.         *)
(* Of document.head the model keeps one fact: whether it holds the style   *)
(* element that injectCSS appends (cssInjected).                           *)
(* Callers pass elements that are in the document; a detached element      *)
(* keeps its cache entry (it may still be referenced) and is never passed. *)
(***************************************************************************)
EXTENDS Integers, Sequences, FiniteSets, TLC

VARIABLES doc, cache, cssInjected, nextUid, last, rt, nOps

vars == <<doc, cache, cssInjected, nextUid, last, rt, nOps>>

(***************************************************************************)
(* Bounds of the model.                                                    *)
(***************************************************************************)
MaxOps == 3          \* apply/remove calls in one behaviour

(***************************************************************************)
(* Generic helpers.                                                        *)
(***************************************************************************)
NaN == -1            \* parseFloat of a non-numeric style value

Min(a, b) == IF a < b THEN a ELSE b

Max(a, b) == IF a > b THEN a ELSE b

CeilDiv(a, b) == (a + b - 1) \div b

Range(s) == {s[i] : i \in DOMAIN s}

NoAttrs == [a \in {} |-> ""]

NoInline == [set |-> FALSE, width |-> 0, pct |-> FALSE, height |-> 0, aspect |-> <<>>]

\* a < b on JavaScript numbers: every comparison with NaN is false
NumLess(a, b) == a # NaN /\ b # NaN /\ a < b

\* x || d on JavaScript numbers: NaN and 0 are falsy
OrElse(x, d) == IF x = NaN \/ x = 0 THEN d ELSE x

(***************************************************************************)
(* DOM primitives.                                                         *)
(***************************************************************************)
\* element.classList.add(c)
classListAdd(el, c) ==
    IF c \in Range(el.cls) THEN el ELSE [el EXCEPT !.cls = Append(@, c)]

\* DOMTokenList.add throws InvalidCharacterError, before it adds anything,
\* when the token contains white space; over the theme names of the model
WhitespaceThemes == {"night mode"}

classListAddThrows(token) ==
    token \in {"smart-skeleton-theme-" \o t : t \in WhitespaceThemes}

\* element.classList.remove(c1, c2, ...)
classListRemove(el, cs) ==
    [el EXCEPT !.cls = SelectSeq(@, LAMBDA c : c \notin cs)]

\* element.setAttribute(name, value)
setAttribute(el, name, value) ==
    [el EXCEPT !.attrs = [a \in DOMAIN el.attrs \cup {name} |->
                             IF a = name THEN value ELSE el.attrs[a]]]

\* element.removeAttribute(name) for every name of the set
removeAttributes(el, names) ==
    [el EXCEPT !.attrs = [a \in DOMAIN el.attrs \ names |-> el.attrs[a]]]

hasAttribute(el, name) == name \in DOMAIN el.attrs

\* name.startsWith('data-skeleton-'), over the attribute names of the model
ReservedNames == {"data-skeleton-active", "data-skeleton-ignore"}

startsWithDataSkeleton(name) == name \in ReservedNames

\* innerHTML getter: the serialised children and direct text, identities dropped
RECURSIVE serialize(_)
serialize(el) ==
    [tag |-> el.tag, cls |-> el.cls, attrs |-> el.attrs, text |-> el.text,
     css |-> el.css, inline |-> el.inline,
     kids |-> [i \in DOMAIN el.kids |-> serialize(el.kids[i])]]

innerHTML(el) ==
    [text |-> el.text, kids |-> [i \in DOMAIN el.kids |-> serialize(el.kids[i])]]

\* innerHTML setter: parsing creates new elements, numbered from n in document order
RECURSIVE parseNode(_, _), parseList(_, _)
parseNode(h, n) ==
    LET sub == parseList(h.kids, n + 1)
    IN  [node |-> [uid |-> n, tag |-> h.tag, cls |-> h.cls, attrs |-> h.attrs,
                   text |-> h.text, css |-> h.css, inline |-> h.inline,
                   kids |-> sub.kids],
         next |-> sub.next]

parseList(hs, n) ==
    IF hs = <<>> THEN [kids |-> <<>>, next |-> n]
    ELSE LET first == parseNode(Head(hs), n)
             rest == parseList(Tail(hs), first.next)
         IN  [kids |-> <<first.node>> \o rest.kids, next |-> rest.next]

setInnerHTML(el, html, n) ==
    LET p == parseList(html.kids, n)
    IN  [node |-> [el EXCEPT !.text = html.text, !.kids = p.kids], next |-> p.next]

\* element.textContent?.trim().length: own text and that of every descendant
RECURSIVE textLength(_)
RECURSIVE sumText(_)
sumText(ks) == IF ks = <<>> THEN 0 ELSE textLength(Head(ks)) + sumText(Tail(ks))

textLength(el) == el.text + sumText(el.kids)

\* the elements of a subtree, as a set of uids, and access by uid
RECURSIVE uidsOf(_)
uidsOf(el) == {el.uid} \cup UNION {uidsOf(el.kids[i]) : i \in DOMAIN el.kids}

RECURSIVE nodeAt(_, _)
nodeAt(el, u) ==
    IF el.uid = u THEN el
    ELSE LET i == CHOOSE i \in DOMAIN el.kids : u \in uidsOf(el.kids[i])
         IN  nodeAt(el.kids[i], u)

RECURSIVE replaceAt(_, _, _)
replaceAt(el, u, new) ==
    IF el.uid = u THEN new
    ELSE [el EXCEPT !.kids = [i \in DOMAIN el.kids |->
                                 IF u \in uidsOf(el.kids[i])
                                 THEN replaceAt(el.kids[i], u, new)
                                 ELSE el.kids[i]]]

RECURSIVE depthOf(_, _)
depthOf(el, u) ==
    IF el.uid = u THEN 0
    ELSE LET i == CHOOSE i \in DOMAIN el.kids : u \in uidsOf(el.kids[i])
         IN  1 + depthOf(el.kids[i], u)


(***************************************************************************)
(* src/src/utils/dom.ts: classifier and skeleton builder.                  *)
(***************************************************************************)
\* getRelevantStyles: the style snapshot of an element, read once per pass.
\* Border radius, padding and margin are copied verbatim and decide nothing;
\* they are left out of the snapshot.
getRelevantStyles(el) == el.css

\* detectNodeType with the button test made before the media test
detectNodeTypeButtonFirst(el) ==
    LET hasTextContent == textLength(el) > 0
        hasElementChildren == Len(el.kids) > 0
    IN  IF el.tag = "button"
           \/ (hasAttribute(el, "role") /\ el.attrs["role"] = "button")
        THEN "BUTTON"
        ELSE IF el.tag \in {"img", "picture", "video", "canvas"} THEN "IMAGE"
        ELSE IF el.tag \in {"svg", "i"}
                \/ Range(el.cls) \cap {"icon", "fa", "material-icons"} # {}
             THEN "ICON"
        ELSE IF el.tag \in {"script", "style", "noscript"} THEN "IGNORE"
        ELSE IF hasTextContent /\ ~hasElementChildren THEN "TEXT"
        ELSE IF hasElementChildren THEN "CONTAINER"
        ELSE IF hasTextContent THEN "TEXT"
        ELSE "IGNORE"

detectNodeType(el) ==
    LET hasTextContent == textLength(el) > 0
        hasElementChildren == Len(el.kids) > 0
    IN  IF el.tag \in {"img", "picture", "video", "canvas"} THEN "IMAGE"
        ELSE IF el.tag = "button"
                \/ (hasAttribute(el, "role") /\ el.attrs["role"] = "button")
             THEN "BUTTON"
        ELSE IF el.tag \in {"svg", "i"}
                \/ Range(el.cls) \cap {"icon", "fa", "material-icons"} # {}
             THEN "ICON"
        ELSE IF el.tag \in {"script", "style", "noscript"} THEN "IGNORE"
        ELSE IF hasTextContent /\ ~hasElementChildren THEN "TEXT"
        ELSE IF hasElementChildren THEN "CONTAINER"
        ELSE IF hasTextContent THEN "TEXT"
        ELSE "IGNORE"

shouldSkipElement(el) ==
    IF el.css.display = "none" \/ el.css.visibility = "hidden" THEN TRUE
    ELSE IF NumLess(el.css.width, 5) \/ NumLess(el.css.height, 5) THEN TRUE
    ELSE FALSE

\* Math.random(): the k-th draw of a call, in tenths, under one of the
\* outcomes of the random stream that the model tries
randomTenths == <<0, 5, 9>>

mathRandom(seed, k) == randomTenths[((seed + k) % Len(randomTenths)) + 1]

\* block.style.aspectRatio = `${parseFloat(w)} / ${parseFloat(h)}`: the CSSOM
\* drops a declaration that does not parse, so "NaN / 150" leaves it unset
aspectRatioOf(styles) ==
    IF styles.width = NaN \/ styles.height = NaN THEN <<>>
    ELSE <<styles.width, styles.height>>

\* createSkeletonBlock: a new div (its uid is given when it is inserted);
\* returns the block and the number of Math.random draws it made
createSkeletonBlock(type, styles, randomize, seed, k) ==
    LET base == [uid |-> 0, tag |-> "div", cls |-> <<"smart-skeleton-block">>,
                 attrs |-> NoAttrs, text |-> 0, kids |-> <<>>, css |-> styles,
                 inline |-> [set |-> TRUE, width |-> styles.width, pct |-> FALSE,
                             height |-> styles.height, aspect |-> <<>>]]
    IN  CASE type = "TEXT" ->
               LET b == classListAdd(base, "smart-skeleton-text")
               IN  IF randomize
                   THEN [block |-> [b EXCEPT !.inline.width = 60 + (mathRandom(seed, k) * 40) \div 10,
                                             !.inline.pct = TRUE],
                         draws |-> 1]
                   ELSE [block |-> b, draws |-> 0]
          [] type = "IMAGE" ->
               [block |-> [classListAdd(base, "smart-skeleton-image")
                              EXCEPT !.inline.aspect = aspectRatioOf(styles)],
                draws |-> 0]
          [] type \in {"BUTTON", "ICON"} ->
               [block |-> classListAdd(base, "smart-skeleton-button"), draws |-> 0]
          [] OTHER -> [block |-> base, draws |-> 0]

charWidth == 8

maxLines == 5

defaultElementWidth == 200

\* createTextSkeletons without the Math.min(estimatedLines, 5) cap
lineCountUncapped(len, styles) ==
    LET elementWidth == OrElse(styles.width, defaultElementWidth)
        charsPerLine == elementWidth \div charWidth
    IN  IF charsPerLine = 0 THEN len ELSE Max(1, CeilDiv(len, charsPerLine))

\* the line count of createTextSkeletons; text.length / 0 is Infinity in
\* JavaScript and Math.min(Infinity, 5) is 5; 0 / 0 is NaN and the loop
\* `i < NaN` makes no line
lineCount(len, styles) ==
    LET elementWidth == OrElse(styles.width, defaultElementWidth)
        charsPerLine == elementWidth \div charWidth
        estimatedLines == IF charsPerLine = 0
                          THEN (IF len = 0 THEN 0 ELSE maxLines)
                          ELSE Max(1, CeilDiv(len, charsPerLine))
    IN  Min(estimatedLines, maxLines)

\* the loop of createTextSkeletons: `if (i === lines - 1 && options.randomize)`
narrowsLastAlways(i, lines, randomize) == i = lines - 1

narrowsLastNever(i, lines, randomize) == FALSE

narrowsLast(i, lines, randomize) == (i = lines - 1) /\ randomize

\* createTextSkeletons: the lines of the fragment, in order
RECURSIVE textLines(_, _, _, _, _, _)
textLines(i, lines, styles, randomize, seed, k) ==
    IF i >= lines THEN [blocks |-> <<>>, draws |-> 0]
    ELSE LET made == createSkeletonBlock("TEXT", styles, randomize, seed, k)
             isLast == narrowsLast(i, lines, randomize)
             line == IF isLast
                     THEN [made.block EXCEPT
                             !.inline.width = 30 + (mathRandom(seed, k + made.draws) * 40) \div 10,
                             !.inline.pct = TRUE]
                     ELSE made.block
             used == made.draws + (IF isLast THEN 1 ELSE 0)
             rest == textLines(i + 1, lines, styles, randomize, seed, k + used)
         IN  [blocks |-> <<line>> \o rest.blocks, draws |-> used + rest.draws]

createTextSkeletons(el, styles, randomize, seed, k) ==
    textLines(0, lineCount(textLength(el), styles), styles, randomize, seed, k)

(***************************************************************************)
(* src/utils/restore.ts: the state cache and the active flag.              *)
(* The cache is a WeakMap keyed by element identity: a function from uids  *)
(* to CachedData.                                                          *)
(***************************************************************************)
hasCachedState(c, el) == el.uid \in DOMAIN c

cacheOriginalState(c, el) ==
    IF el.uid \in DOMAIN c THEN c
    ELSE LET data == [html |-> innerHTML(el),
                      classes |-> el.cls,
                      attributes |-> [a \in {x \in DOMAIN el.attrs : ~startsWithDataSkeleton(x)}
                                         |-> el.attrs[a]]]
         IN  [u \in DOMAIN c \cup {el.uid} |-> IF u = el.uid THEN data ELSE c[u]]

skeletonClasses ==
    {"smart-skeleton-container", "smart-skeleton-theme-light",
     "smart-skeleton-theme-dark", "smart-skeleton-theme-brand",
     "smart-skeleton-shimmer", "smart-skeleton-no-shimmer",
     "smart-skeleton-speed-slow", "smart-skeleton-speed-fast"}

\* restoreOriginalState ending in a cache that is emptied instead of
\* cache.delete(element)
restoreOriginalStateClearingCache(c, el, n) ==
    IF el.uid \notin DOMAIN c
    THEN [ok |-> FALSE, node |-> el, cache |-> c, next |-> n]
    ELSE LET data == c[el.uid]
             set == setInnerHTML(el, data.html, n)
             noCls == classListRemove(set.node, skeletonClasses)
             attrsToRemove == {a \in DOMAIN noCls.attrs : startsWithDataSkeleton(a)}
             noAttrs == removeAttributes(noCls, attrsToRemove)
         IN  [ok |-> TRUE, node |-> noAttrs,
              cache |-> [u \in {} |-> c[u]],
              next |-> set.next]

\* restoreOriginalState: [ok, node, cache, next]; n is the next fresh uid
restoreOriginalState(c, el, n) ==
    IF el.uid \notin DOMAIN c
    THEN [ok |-> FALSE, node |-> el, cache |-> c, next |-> n]
    ELSE LET data == c[el.uid]
             set == setInnerHTML(el, data.html, n)
             noCls == classListRemove(set.node, skeletonClasses)
             attrsToRemove == {a \in DOMAIN noCls.attrs : startsWithDataSkeleton(a)}
             noAttrs == removeAttributes(noCls, attrsToRemove)
         IN  [ok |-> TRUE, node |-> noAttrs,
              cache |-> [u \in DOMAIN c \ {el.uid} |-> c[u]],
              next |-> set.next]

markAsSkeletonized(el) == setAttribute(el, "data-skeleton-active", "true")

isSkeletonized(el) == hasAttribute(el, "data-skeleton-active")

unmarkAsSkeletonized(el) == removeAttributes(el, {"data-skeleton-active"})

(***************************************************************************)
(* src/src/skeleton.ts: the traversal engine.                              *)
(***************************************************************************)
OptionFields == {"theme", "randomize", "speed", "shimmer", "deep", "maxDepth"}

DEFAULT_OPTIONS ==
    [theme |-> "light", randomize |-> TRUE, speed |-> "normal",
     shimmer |-> TRUE, deep |-> TRUE, maxDepth |-> 10]

\* An options argument is a function on the fields it gives a value; the
\* fields it carries with the value undefined (`{ theme: undefined }`) are
\* listed under its key "undefined".
undefinedFields(options) ==
    IF "undefined" \in DOMAIN options THEN options["undefined"] ELSE {}

\* what the reads of a field make of undefined: the template literal of the
\* theme class prints "undefined", `speed === 'slow'` and `=== 'fast'` are
\* false, `if (opts.shimmer)`, `if (options.deep)` and `if (options.randomize)`
\* are false, and `depth > undefined` compares with NaN
undefinedAs ==
    [theme |-> "undefined", randomize |-> FALSE, speed |-> "undefined",
     shimmer |-> FALSE, deep |-> FALSE, maxDepth |-> NaN]

\* { ...DEFAULT_OPTIONS, ...options }: the spread copies every own property
\* of options, one whose value is undefined included
mergeOptions(options) ==
    [f \in OptionFields |->
        IF f \in undefinedFields(options) THEN undefinedAs[f]
        ELSE IF f \in DOMAIN options THEN options[f]
        ELSE DEFAULT_OPTIONS[f]]

batchSize == 20

\* the blocks of a fragment receive their identities, from n on
RECURSIVE withUids(_, _)
withUids(blocks, n) ==
    IF blocks = <<>> THEN <<>>
    ELSE <<[Head(blocks) EXCEPT !.uid = n]>> \o withUids(Tail(blocks), n + 1)

\* element.appendChild(fragment) without the element.innerHTML = '' before it
replaceContentAppending(el, blocks, n) ==
    [el EXCEPT !.kids = @ \o withUids(blocks, n)]

\* element.innerHTML = ''; element.appendChild(fragment)
replaceContent(el, blocks, n) ==
    [el EXCEPT !.text = 0, !.kids = withUids(blocks, n)]

replaceWithTextSkeleton(el, styles, opts, seed, n, k) ==
    LET fragment == createTextSkeletons(el, styles, opts.randomize, seed, k)
    IN  [node |-> replaceContent(el, fragment.blocks, n),
         next |-> n + Len(fragment.blocks), draws |-> k + fragment.draws,
         seen |-> <<>>]

replaceWithImageSkeleton(el, styles, opts, seed, n, k) ==
    LET made == createSkeletonBlock("IMAGE", styles, opts.randomize, seed, k)
    IN  [node |-> replaceContent(el, <<made.block>>, n),
         next |-> n + 1, draws |-> k + made.draws, seen |-> <<>>]

replaceWithButtonSkeleton(el, styles, opts, seed, n, k) ==
    LET made == createSkeletonBlock("BUTTON", styles, opts.randomize, seed, k)
    IN  [node |-> replaceContent(el, <<made.block>>, n),
         next |-> n + 1, draws |-> k + made.draws, seen |-> <<>>]

\* processElement's depth limit: `depth > options.maxDepth`
exceedsMaxDepthOffByOne(depth, opts) == depth > opts.maxDepth + 1

exceedsMaxDepth(depth, opts) == NumLess(opts.maxDepth, depth)

\* the CONTAINER case of processElement: `if (options.deep)`
descendsAlways(opts) == TRUE

descendsInto(opts) == opts.deep

\* processElement, processContainer and its two loops: each returns the
\* element as the call leaves it, the next fresh uid, the draws made so far
\* and the elements that were classified (detectNodeType), in order (seen)
RECURSIVE processElement(_, _, _, _, _, _)
RECURSIVE processContainer(_, _, _, _, _, _, _)
RECURSIVE processBatches(_, _, _, _, _, _, _)
RECURSIVE processBatch(_, _, _, _, _, _)

processBatch(batch, opts, depth, seed, n, k) ==
    IF batch = <<>> THEN [kids |-> <<>>, next |-> n, draws |-> k, seen |-> <<>>]
    ELSE LET first == processElement(Head(batch), opts, depth + 1, seed, n, k)
             rest == processBatch(Tail(batch), opts, depth, seed, first.next, first.draws)
         IN  [kids |-> <<first.node>> \o rest.kids, next |-> rest.next,
              draws |-> rest.draws, seen |-> first.seen \o rest.seen]

\* processContainer's outer loop stopping after its first batch
processBatchesFirstOnly(children, i, opts, depth, seed, n, k) ==
    processBatch(SubSeq(children, 1, Min(batchSize, Len(children))),
                 opts, depth, seed, n, k)

\* processContainer's outer loop with `i += batchSize - 1`
RECURSIVE processBatchesOverlapping(_, _, _, _, _, _, _)
processBatchesOverlapping(children, i, opts, depth, seed, n, k) ==
    IF i >= Len(children) THEN [kids |-> <<>>, next |-> n, draws |-> k, seen |-> <<>>]
    ELSE LET batch == SubSeq(children, i + 1, Min(i + batchSize, Len(children)))
             done == processBatch(batch, opts, depth, seed, n, k)
             rest == processBatchesOverlapping(children, i + batchSize - 1, opts, depth,
                                               seed, done.next, done.draws)
         IN  [kids |-> done.kids \o rest.kids, next |-> rest.next,
              draws |-> rest.draws, seen |-> done.seen \o rest.seen]

processBatches(children, i, opts, depth, seed, n, k) ==
    IF i >= Len(children) THEN [kids |-> <<>>, next |-> n, draws |-> k, seen |-> <<>>]
    ELSE LET batch == SubSeq(children, i + 1, Min(i + batchSize, Len(children)))
             done == processBatch(batch, opts, depth, seed, n, k)
             rest == processBatches(children, i + batchSize, opts, depth, seed,
                                    done.next, done.draws)
         IN  [kids |-> done.kids \o rest.kids, next |-> rest.next,
              draws |-> rest.draws, seen |-> done.seen \o rest.seen]

\* processContainer walking element.children a second time after its loop
processContainerTwice(el, styles, opts, depth, seed, n, k) ==
    LET marked == classListAdd(el, "smart-skeleton-container")
        done == processBatches(marked.kids, 0, opts, depth, seed, n, k)
        again == processBatches(done.kids, 0, opts, depth, seed, done.next, done.draws)
    IN  [node |-> [marked EXCEPT !.kids = again.kids],
         next |-> again.next, draws |-> again.draws, seen |-> done.seen \o again.seen]

\* processContainer clearing the element's own text
processContainerClearingText(el, styles, opts, depth, seed, n, k) ==
    LET marked == classListAdd(el, "smart-skeleton-container")
        done == processBatches(marked.kids, 0, opts, depth, seed, n, k)
    IN  [node |-> [marked EXCEPT !.kids = done.kids, !.text = 0],
         next |-> done.next, draws |-> done.draws, seen |-> done.seen]

processContainer(el, styles, opts, depth, seed, n, k) ==
    LET marked == classListAdd(el, "smart-skeleton-container")
        children == marked.kids
        done == processBatches(children, 0, opts, depth, seed, n, k)
    IN  [node |-> [marked EXCEPT !.kids = done.kids],
         next |-> done.next, draws |-> done.draws, seen |-> done.seen]

processElement(el, opts, depth, seed, n, k) ==
    LET untouched == [node |-> el, next |-> n, draws |-> k, seen |-> <<>>]
    IN  IF exceedsMaxDepth(depth, opts) THEN untouched
        ELSE IF shouldSkipElement(el) THEN untouched
        ELSE LET nodeType == detectNodeType(el)
                 styles == getRelevantStyles(el)
                 done ==
                   CASE nodeType = "TEXT" ->
                          replaceWithTextSkeleton(el, styles, opts, seed, n, k)
                     [] nodeType \in {"IMAGE", "ICON"} ->
                          replaceWithImageSkeleton(el, styles, opts, seed, n, k)
                     [] nodeType = "BUTTON" ->
                          replaceWithButtonSkeleton(el, styles, opts, seed, n, k)
                     [] nodeType = "CONTAINER" ->
                          IF descendsInto(opts)
                          THEN processContainer(el, styles, opts, depth, seed, n, k)
                          ELSE untouched
                     [] OTHER -> untouched
             IN  [done EXCEPT !.seen = <<el.uid>> \o @]

\* injectCSS(): this.cssInjected after the call; the style element is in
\* document.head from the first call on
injectCSS(injected) == TRUE

\* the presentation classes apply() puts on the root
presentationClasses(el, opts) ==
    LET themed == classListAdd(el, "smart-skeleton-theme-" \o opts.theme)
        shimmered == IF opts.shimmer
                     THEN classListAdd(themed, "smart-skeleton-shimmer")
                     ELSE classListAdd(themed, "smart-skeleton-no-shimmer")
    IN  IF opts.speed = "slow" THEN classListAdd(shimmered, "smart-skeleton-speed-slow")
        ELSE IF opts.speed = "fast" THEN classListAdd(shimmered, "smart-skeleton-speed-fast")
        ELSE shimmered

\* apply() without its isSkeletonized guard
applyUnguarded(el, options, seed, c, n) ==
    LET opts == mergeOptions(options)
        cached == cacheOriginalState(c, el)
        classed == presentationClasses(el, opts)
        marked == markAsSkeletonized(classed)
        done == processElement(marked, opts, 0, seed, n, 0)
    IN  [node |-> done.node, cache |-> cached, next |-> done.next, threw |-> FALSE]

\* Skeleton.apply(element, options): [node, cache, next, threw]; threw says
\* that the call ended in an exception, which apply does not catch: the
\* statements after the one that threw are not executed
apply(el, options, seed, c, n) ==
    LET opts == mergeOptions(options)
    IN  IF isSkeletonized(el)
        THEN [node |-> el, cache |-> c, next |-> n, threw |-> FALSE]
        ELSE LET cached == cacheOriginalState(c, el)
                 classed == presentationClasses(el, opts)
                 marked == markAsSkeletonized(classed)
                 done == processElement(marked, opts, 0, seed, n, 0)
             IN  IF classListAddThrows("smart-skeleton-theme-" \o opts.theme)
                 THEN [node |-> el, cache |-> cached, next |-> n, threw |-> TRUE]
                 ELSE [node |-> done.node, cache |-> cached, next |-> done.next,
                       threw |-> FALSE]

\* remove() that strips the skeleton classes before it tests the flag
removeEager(el, c, n) ==
    LET stripped == classListRemove(el, skeletonClasses)
        restored == restoreOriginalState(c, stripped, n)
    IN  IF ~isSkeletonized(el) THEN [node |-> stripped, cache |-> c, next |-> n]
        ELSE IF restored.ok
             THEN [node |-> unmarkAsSkeletonized(restored.node),
                   cache |-> restored.cache, next |-> restored.next]
             ELSE [node |-> restored.node, cache |-> restored.cache, next |-> restored.next]

\* Skeleton.remove(element): [node, cache, next]
remove(el, c, n) ==
    IF ~isSkeletonized(el) THEN [node |-> el, cache |-> c, next |-> n]
    ELSE LET restored == restoreOriginalState(c, el, n)
         IN  IF restored.ok
             THEN [node |-> unmarkAsSkeletonized(restored.node),
                   cache |-> restored.cache, next |-> restored.next]
             ELSE [node |-> restored.node, cache |-> restored.cache, next |-> restored.next]

\* Skeleton.isActive(element)
isActive(el) == isSkeletonized(el)

(***************************************************************************)
(* The documents and the option values the model starts from.              *)
(***************************************************************************)
Css(display, visibility, width, height) ==
    [display |-> display, visibility |-> visibility, width |-> width, height |-> height]

Visible(width, height) == Css("block", "visible", width, height)

Markup(tag, cls, attrs, text, css, kids) ==
    [tag |-> tag, cls |-> cls, attrs |-> attrs, text |-> text, css |-> css,
     inline |-> NoInline, kids |-> kids]

Para(len) == Markup("p", <<>>, NoAttrs, len, Visible(200, 20), <<>>)

Image == Markup("img", <<>>, NoAttrs, 0, Visible(300, 150), <<>>)

Button == Markup("button", <<"btn">>, NoAttrs, 0, Visible(80, 30),
                 <<Markup("span", <<>>, NoAttrs, 4, Visible(40, 20), <<>>)>>)

Icon == Markup("span", <<"fa">>, NoAttrs, 0, Visible(16, 16), <<>>)

HiddenPara == Markup("p", <<>>, NoAttrs, 12, Css("none", "visible", NaN, NaN), <<>>)

Div(kids) == Markup("div", <<"card">>, [title |-> "t"], 0, Visible(400, NaN), kids)

HiddenDiv(kids) ==
    Markup("div", <<"card">>, [title |-> "t"], 0, Css("none", "visible", NaN, NaN), kids)

InitMarkups ==
    { Div(<<Para(12), Image, HiddenPara>>),
      Div(<<Div(<<Para(60)>>), Button>>),
      Div(<<Div(<<Div(<<Icon>>)>>)>>),
      HiddenDiv(<<Para(12)>>),
      Para(12),
      Button }

\* the options arguments tried: objects that give some of the six fields
OptionArgs ==
    { NoAttrs,
      [maxDepth |-> 0],
      [maxDepth |-> 1, randomize |-> FALSE, theme |-> "dark", speed |-> "fast"],
      [deep |-> FALSE, theme |-> "custom", shimmer |-> FALSE, speed |-> "slow"] }

\* the outcomes of the Math.random stream tried for a call; a call with
\* randomize off draws nothing
Seeds(options) == IF mergeOptions(options).randomize THEN {0, 1} ELSE {0}

(***************************************************************************)
(* State machine: callers invoke apply and remove on elements of the       *)
(* document, one call at a time (the engine is synchronous).               *)
(*   last  the call that was made last: its kind, its element, its options *)
(*         argument, whether the element was active when it was made and   *)
(*         whether it changed the element, its subtree or the cache        *)
(*   rt    the root, and what it looked like, of an apply on an inactive   *)
(*         uncached root that was followed by remove with no other call    *)
(*         in between; touched says that other code changed the root's     *)
(*         classes or attributes between the two                           *)
(***************************************************************************)
\* what the round trip is about: serialised content, class list and the
\* attributes that do not carry the reserved prefix
rootView(el) ==
    [html |-> innerHTML(el), cls |-> el.cls,
     attrs |-> [a \in {x \in DOMAIN el.attrs : ~startsWithDataSkeleton(x)} |-> el.attrs[a]]]

NoCall == [kind |-> "none", uid |-> 0, options |-> NoAttrs, wasActive |-> FALSE,
           changed |-> FALSE, threw |-> FALSE]

NoRoundTrip == [st |-> "none", uid |-> 0, view |-> <<>>, touched |-> FALSE]

\* callers pass their own elements, never a placeholder block
RECURSIVE Targets(_)
Targets(el) ==
    IF "smart-skeleton-block" \in Range(el.cls) THEN {}
    ELSE {el.uid} \cup UNION {Targets(el.kids[i]) : i \in DOMAIN el.kids}

\* the page is parsed from one of the markups; nothing is cached or active
InitFrom(markups) ==
    /\ \E m \in markups :
          LET p == parseNode(m, 1)
          IN  doc = p.node /\ nextUid = p.next
    /\ cache = [u \in {} |-> <<>>]
    /\ cssInjected = FALSE
    /\ last = NoCall
    /\ rt = NoRoundTrip
    /\ nOps = 0

Init == InitFrom(InitMarkups)

Apply(u, options, seed) ==
    /\ u \in Targets(doc)
    /\ LET el == nodeAt(doc, u)
           r == apply(el, options, seed, cache, nextUid)
       IN  /\ doc' = replaceAt(doc, u, r.node)
           /\ cache' = r.cache
           /\ cssInjected' = injectCSS(cssInjected)
           /\ nextUid' = r.next
           /\ last' = [kind |-> "apply", uid |-> u, options |-> options,
                       wasActive |-> isActive(el),
                       changed |-> (replaceAt(doc, u, r.node) # doc \/ r.cache # cache),
                       threw |-> r.threw]
           /\ rt' = IF ~isActive(el) /\ ~hasCachedState(cache, el)
                    THEN [st |-> "applied", uid |-> u, view |-> rootView(el),
                          touched |-> FALSE]
                    ELSE NoRoundTrip
    /\ nOps' = nOps + 1

Remove(u) ==
    /\ u \in Targets(doc)
    /\ LET el == nodeAt(doc, u)
           r == remove(el, cache, nextUid)
       IN  /\ doc' = replaceAt(doc, u, r.node)
           /\ cache' = r.cache
           /\ nextUid' = r.next
           /\ UNCHANGED cssInjected
           /\ last' = [kind |-> "remove", uid |-> u, options |-> NoAttrs,
                       wasActive |-> isActive(el),
                       changed |-> (replaceAt(doc, u, r.node) # doc \/ r.cache # cache),
                       threw |-> FALSE]
           /\ rt' = IF rt.st = "applied" /\ rt.uid = u
                    THEN [rt EXCEPT !.st = "removed"]
                    ELSE NoRoundTrip
    /\ nOps' = nOps + 1

\* a caller applies a skeleton to one of its elements, with some options
ApplyCall(optionArgs) ==
    \E u \in Targets(doc), options \in optionArgs :
       \E seed \in Seeds(options) : Apply(u, options, seed)

\* a caller removes the skeleton from one of its elements
RemoveCall == \E u \in Targets(doc) : Remove(u)

Next ==
    \/ nOps < MaxOps /\ ApplyCall(OptionArgs)
    \/ nOps < MaxOps /\ RemoveCall

Spec == Init /\ [][Next]_vars

\* nested roots: four calls, made with the default options
MaxNestedOps == 4

NestedOptionArgs == { NoAttrs, [randomize |-> FALSE] }

NextNested ==
    \/ nOps < MaxNestedOps /\ ApplyCall(NestedOptionArgs)
    \/ nOps < MaxNestedOps /\ RemoveCall

SpecNested == Init /\ [][NextNested]_vars

(***************************************************************************)
(* The classifier and the two builders of dom.ts on their own: a page of   *)
(* one element whose tag, role, classes, text, children and resolved style *)
(* range over the cases the functions distinguish.                         *)
(*   last  of a classify step: the category returned (type); of a text     *)
(*         step: the text length and the snapshot passed, the randomize     *)
(*         option and the lines returned; of a block step: the type and    *)
(*         the snapshot passed and the block returned                       *)
(***************************************************************************)
MaxUnitOps == 2

ClassifiedTags ==
    {"img", "picture", "video", "canvas", "button", "svg", "i",
     "script", "style", "noscript", "div", "p"}

RoleAttrs == {NoAttrs, [role |-> "button"], [role |-> "tab"]}

ClassLists == {<<>>, <<"icon">>, <<"fa">>, <<"material-icons">>, <<"card">>}

OwnTexts == {0, 5}

ChildLists == {<<>>, <<Markup("span", <<>>, NoAttrs, 3, Visible(40, 20), <<>>)>>}

ClassifierMarkups ==
    {Markup(t, c, a, x, Visible(200, 20), k) :
        t \in ClassifiedTags, c \in ClassLists, a \in RoleAttrs,
        x \in OwnTexts, k \in ChildLists}

\* text lengths around the line breaks of a 200px snapshot (25 characters
\* a line), and widths: "auto", zero, below and at one character, wide
TextLengths == {1, 25, 26, 126, 400}

SnapshotWidths == {NaN, 0, 5, 7, 8, 200, 4000}

TextMarkups ==
    {Markup("p", <<>>, NoAttrs, len, Visible(w, 20), <<>>) :
        len \in TextLengths, w \in SnapshotWidths}

SnapshotSides == {NaN, 0, 150, 300}

ImageMarkups ==
    {Markup("img", <<>>, NoAttrs, 0, Visible(w, h), <<>>) :
        w \in SnapshotSides, h \in SnapshotSides}

UnitMarkups == ClassifierMarkups \cup TextMarkups \cup ImageMarkups

UnitSeeds(randomize) == IF randomize THEN {0, 1, 2} ELSE {0}

InitUnit == InitFrom(UnitMarkups)

UnitCall(kind, u) ==
    [kind |-> kind, uid |-> u, options |-> NoAttrs, wasActive |-> FALSE,
     changed |-> FALSE, threw |-> FALSE]

\* detectNodeType(element)
Classify(u) ==
    /\ u \in Targets(doc)
    /\ last' = UnitCall("classify", u) @@ [type |-> detectNodeType(nodeAt(doc, u))]
    /\ rt' = NoRoundTrip
    /\ nOps' = nOps + 1
    /\ UNCHANGED <<doc, cache, cssInjected, nextUid>>

\* createTextSkeletons(element, styles, { randomize }), called as
\* replaceWithTextSkeleton calls it: on an element classified TEXT
BuildText(u, randomize, seed) ==
    /\ u \in Targets(doc)
    /\ detectNodeType(nodeAt(doc, u)) = "TEXT"
    /\ LET el == nodeAt(doc, u)
           styles == getRelevantStyles(el)
       IN  last' = UnitCall("text", u) @@
                     [randomize |-> randomize, len |-> textLength(el), styles |-> styles,
                      lines |-> createTextSkeletons(el, styles, randomize, seed, 0).blocks]
    /\ rt' = NoRoundTrip
    /\ nOps' = nOps + 1
    /\ UNCHANGED <<doc, cache, cssInjected, nextUid>>

\* createSkeletonBlock(type, styles, { randomize }), with the types that
\* replaceWithImageSkeleton and replaceWithButtonSkeleton pass
BuildBlock(u, type, randomize) ==
    /\ u \in Targets(doc)
    /\ LET styles == getRelevantStyles(nodeAt(doc, u))
       IN  last' = UnitCall("block", u) @@
                     [type |-> type, styles |-> styles,
                      block |-> createSkeletonBlock(type, styles, randomize, 0, 0).block]
    /\ rt' = NoRoundTrip
    /\ nOps' = nOps + 1
    /\ UNCHANGED <<doc, cache, cssInjected, nextUid>>

ClassifyCall == \E u \in Targets(doc) : Classify(u)

BuildTextCall ==
    \E u \in Targets(doc), randomize \in BOOLEAN :
       \E seed \in UnitSeeds(randomize) : BuildText(u, randomize, seed)

BuildBlockCall ==
    \E u \in Targets(doc), type \in {"IMAGE", "BUTTON"}, randomize \in BOOLEAN :
       BuildBlock(u, type, randomize)

NextUnit ==
    \/ nOps < MaxUnitOps /\ ClassifyCall
    \/ nOps < MaxUnitOps /\ BuildTextCall
    \/ nOps < MaxUnitOps /\ BuildBlockCall

SpecUnit == InitUnit /\ [][NextUnit]_vars

(***************************************************************************)
(* Callers that use the opt-out attribute of the README, pass options with *)
(* undefined or out-of-enum values, and change the classes and attributes  *)
(* of an active root themselves.                                           *)
(***************************************************************************)
MaxCallerOps == 3

IgnoredPara ==
    Markup("p", <<>>, ("data-skeleton-ignore" :> ""), 12, Visible(200, 20), <<>>)

CallerMarkups ==
    { Div(<<IgnoredPara, Para(12)>>),
      Para(12) }

CallerOptionArgs ==
    { NoAttrs,
      ("undefined" :> {"theme"}),
      ("undefined" :> {"randomize", "speed", "shimmer", "deep", "maxDepth"}),
      [theme |-> "night mode"],
      [theme |-> "brand", speed |-> "turbo"] }

InitCallers == InitFrom(CallerMarkups)

\* other code edits an active root: element.classList.add('selected') or
\* element.setAttribute('title', 'changed')
ExternalChanges == {"classList.add", "setAttribute"}

ExternalChange(u, change) ==
    /\ u \in Targets(doc)
    /\ isActive(nodeAt(doc, u))
    /\ LET el == nodeAt(doc, u)
           new == IF change = "classList.add"
                  THEN classListAdd(el, "selected")
                  ELSE setAttribute(el, "title", "changed")
       IN  /\ doc' = replaceAt(doc, u, new)
           /\ last' = [kind |-> "change", uid |-> u, options |-> NoAttrs,
                       wasActive |-> TRUE, changed |-> (new # el), threw |-> FALSE]
    /\ rt' = IF rt.st = "applied" /\ rt.uid = u
             THEN [rt EXCEPT !.touched = TRUE]
             ELSE NoRoundTrip
    /\ nOps' = nOps + 1
    /\ UNCHANGED <<cache, cssInjected, nextUid>>

ExternalChangeCall ==
    \E u \in Targets(doc), change \in ExternalChanges : ExternalChange(u, change)

NextCallers ==
    \/ nOps < MaxCallerOps /\ ApplyCall(CallerOptionArgs)
    \/ nOps < MaxCallerOps /\ RemoveCall
    \/ nOps < MaxCallerOps /\ ExternalChangeCall

SpecCallers == InitCallers /\ [][NextCallers]_vars

(***************************************************************************)
(* apply and remove one statement at a time, in program order: what the    *)
(* root and the cache look like between the statements of a call.          *)
(*   last  the call in progress or just ended: beside the fields above,    *)
(*         entry is what the root looked like when the call was entered,   *)
(*         steps the statements the call executes after its guards, pc the *)
(*         number of them already executed, seed the Math.random outcome   *)
(***************************************************************************)
MaxStepCalls == 2

\* apply() with markAsSkeletonized moved behind the traversal
applyOrderMarkLast ==
    <<"cacheOriginalState", "classList.add", "processElement", "markAsSkeletonized">>

\* skeleton.ts lines 201, 204-218, 221, 224
applyOrder ==
    <<"cacheOriginalState", "classList.add", "markAsSkeletonized", "processElement">>

\* restore.ts lines 58, 61-70, 73-80, 83, then skeleton.ts line 367
removeOrder ==
    <<"innerHTML", "classList.remove", "removeAttribute", "cache.delete",
      "unmarkAsSkeletonized">>

\* one statement of apply or remove on the root el: [node, cache, next, threw]
statement(stmt, el, opts, seed, c, n) ==
    LET only(node) == [node |-> node, cache |-> c, next |-> n, threw |-> FALSE]
    IN  CASE stmt = "cacheOriginalState" ->
               [node |-> el, cache |-> cacheOriginalState(c, el), next |-> n,
                threw |-> FALSE]
          [] stmt = "classList.add" ->
               IF classListAddThrows("smart-skeleton-theme-" \o opts.theme)
               THEN [node |-> el, cache |-> c, next |-> n, threw |-> TRUE]
               ELSE only(presentationClasses(el, opts))
          [] stmt = "markAsSkeletonized" -> only(markAsSkeletonized(el))
          [] stmt = "processElement" ->
               LET done == processElement(el, opts, 0, seed, n, 0)
               IN  [node |-> done.node, cache |-> c, next |-> done.next, threw |-> FALSE]
          [] stmt = "innerHTML" ->
               LET set == setInnerHTML(el, c[el.uid].html, n)
               IN  [node |-> set.node, cache |-> c, next |-> set.next, threw |-> FALSE]
          [] stmt = "classList.remove" -> only(classListRemove(el, skeletonClasses))
          [] stmt = "removeAttribute" ->
               only(removeAttributes(el, {a \in DOMAIN el.attrs : startsWithDataSkeleton(a)}))
          [] stmt = "cache.delete" ->
               [node |-> el, cache |-> [u \in DOMAIN c \ {el.uid} |-> c[u]], next |-> n,
                threw |-> FALSE]
          [] stmt = "unmarkAsSkeletonized" -> only(unmarkAsSkeletonized(el))

StepMarkups ==
    { Div(<<Para(12), Image>>),
      Para(12),
      Button }

StepOptionArgs == { NoAttrs, [theme |-> "dark", randomize |-> FALSE] }

InitSteps == InitFrom(StepMarkups)

\* the engine is synchronous: a call is entered when none is in progress
callRunning == "pc" \in DOMAIN last /\ last.pc < Len(last.steps)

\* apply() up to its isSkeletonized guard
BeginApply(u, options, seed) ==
    /\ ~callRunning
    /\ u \in Targets(doc)
    /\ cssInjected' = injectCSS(cssInjected)
    /\ LET el == nodeAt(doc, u)
       IN  last' = [kind |-> "apply", uid |-> u, options |-> options,
                    wasActive |-> isActive(el), changed |-> FALSE, threw |-> FALSE,
                    entry |-> rootView(el), seed |-> seed, pc |-> 0,
                    steps |-> IF isSkeletonized(el) THEN <<>> ELSE applyOrder]
    /\ rt' = NoRoundTrip
    /\ nOps' = nOps + 1
    /\ UNCHANGED <<doc, cache, nextUid>>

\* remove() up to its isSkeletonized guard and the cache.get of
\* restoreOriginalState
BeginRemove(u) ==
    /\ ~callRunning
    /\ u \in Targets(doc)
    /\ LET el == nodeAt(doc, u)
       IN  last' = [kind |-> "remove", uid |-> u, options |-> NoAttrs,
                    wasActive |-> isActive(el), changed |-> FALSE, threw |-> FALSE,
                    entry |-> rootView(el), seed |-> 0, pc |-> 0,
                    steps |-> IF isSkeletonized(el) /\ hasCachedState(cache, el)
                              THEN removeOrder ELSE <<>>]
    /\ rt' = NoRoundTrip
    /\ nOps' = nOps + 1
    /\ UNCHANGED <<doc, cache, cssInjected, nextUid>>

\* the call in progress executes its next statement
Step ==
    /\ callRunning
    /\ LET el == nodeAt(doc, last.uid)
           r == statement(last.steps[last.pc + 1], el, mergeOptions(last.options),
                          last.seed, cache, nextUid)
       IN  /\ doc' = replaceAt(doc, last.uid, r.node)
           /\ cache' = r.cache
           /\ nextUid' = r.next
           /\ last' = [last EXCEPT !.pc = IF r.threw THEN Len(last.steps) ELSE @ + 1,
                                   !.threw = r.threw,
                                   !.changed = @ \/ r.node # el \/ r.cache # cache]
    /\ UNCHANGED <<cssInjected, rt, nOps>>

BeginApplyCall ==
    \E u \in Targets(doc), options \in StepOptionArgs :
       \E seed \in Seeds(options) : BeginApply(u, options, seed)

BeginRemoveCall == \E u \in Targets(doc) : BeginRemove(u)

NextSteps ==
    \/ nOps < MaxStepCalls /\ BeginApplyCall
    \/ nOps < MaxStepCalls /\ BeginRemoveCall
    \/ Step

SpecSteps == InitSteps /\ [][NextSteps]_vars

(***************************************************************************)
(* The traversal on whole pages: apply and remove called on the root of a  *)
(* page that is a long list, a container of children of every size and     *)
(* visibility, a container with text of its own, or one child of each      *)
(* category.                                                               *)
(***************************************************************************)
MaxTraversalOps == 2

\* a list of n paragraphs, the i-th with i characters of text
List(n) ==
    Markup("div", <<"list">>, NoAttrs, 0, Visible(400, NaN),
           [i \in 1..n |-> Para(i)])

ListLengths == {0, 1, 19, 20, 21, 40, 41}

\* widths and heights around the 5px floor; NaN is "auto"
SizedWidths == {NaN, 0, 4, 5, 200}

SizedHeights == {NaN, 4, 5, 20}

Displays == {Css("none", "visible", 200, 20), Css("block", "hidden", 200, 20),
             Css("none", "visible", NaN, NaN)}

SizedStyles == {Visible(w, h) : w \in SizedWidths, h \in SizedHeights} \cup Displays

\* the styles of a set, in some order
RECURSIVE listOf(_)
listOf(styles) ==
    IF styles = {} THEN <<>>
    ELSE LET st == CHOOSE x \in styles : TRUE
         IN  <<st>> \o listOf(styles \ {st})

SizedLeaf(css) == Markup("p", <<>>, NoAttrs, 12, css, <<>>)

SizedSection(css) == Markup("section", <<>>, NoAttrs, 0, css, <<Para(12)>>)

\* a container with text of its own between its element children
Mixed ==
    Markup("div", <<"card">>, NoAttrs, 7, Visible(400, NaN),
           <<Para(12),
             Markup("div", <<>>, NoAttrs, 5, Visible(400, NaN), <<Image, Para(30)>>),
             Button>>)

TraversalMarkups ==
    {List(n) : n \in ListLengths}
    \cup { Div([i \in DOMAIN listOf(SizedStyles) |-> SizedLeaf(listOf(SizedStyles)[i])]),
           Div([i \in DOMAIN listOf(SizedStyles) |-> SizedSection(listOf(SizedStyles)[i])]),
           Mixed,
           Button,
           Div(<<Para(60), Image, Icon, Button,
                 Markup("p", <<>>, NoAttrs, 400, Visible(NaN, 20), <<>>)>>) }

TraversalOptionArgs ==
    { NoAttrs,
      [maxDepth |-> 1, randomize |-> FALSE],
      ("undefined" :> {"maxDepth"}),
      [maxDepth |-> 0] }

InitTraversal == InitFrom(TraversalMarkups)

\* the caller applies a skeleton to the root of the page, and removes it
RootApplyCall ==
    \E options \in TraversalOptionArgs :
       \E seed \in Seeds(options) : Apply(doc.uid, options, seed)

RootRemoveCall == Remove(doc.uid)

NextTraversal ==
    \/ nOps < MaxTraversalOps /\ RootApplyCall
    \/ nOps < MaxTraversalOps /\ RootRemoveCall

SpecTraversal == InitTraversal /\ [][NextTraversal]_vars

(***************************************************************************)
(* Properties.                                                             *)
(***************************************************************************)
lastElement == nodeAt(doc, last.uid)

lastOptions == mergeOptions(last.options)

\* C1: apply on an inactive, uncached root followed at once by remove leaves
\* the root's serialised content, its class list and its attributes without
\* the reserved prefix as they were before the apply.
C1_RoundTrip ==
    rt.st = "removed" => rootView(nodeAt(doc, rt.uid)) = rt.view

\* C2: after every call, an element of the document is active if and only
\* if the cache holds an entry for it.
C2_ActiveIffCached ==
    \A u \in uidsOf(doc) : isActive(nodeAt(doc, u)) <=> u \in DOMAIN cache

\* C3: apply on a root that is already active changes neither the document
\* (content, classes, attributes of the root and its descendants) nor the
\* cache, whatever its options.
C3_DoubleApplyNoOp ==
    (last.kind = "apply" /\ last.wasActive) => ~last.changed

C3_Witness ==
    /\ last.kind = "apply" /\ last.wasActive
    /\ last.options # NoAttrs
    /\ last.uid \in DOMAIN cache
    /\ Len(lastElement.kids) > 0

\* C4: after remove on an element that was active, the element is inactive
\* and the cache holds no entry for it.
C4_RemoveClearsActive ==
    (last.kind = "remove" /\ last.wasActive)
        => (~isActive(lastElement) /\ last.uid \notin DOMAIN cache)

\* C5: remove on a root that is not active changes neither the document
\* nor any cache entry.
C5_RemoveInactiveNoOp ==
    (last.kind = "remove" /\ ~last.wasActive) => ~last.changed

C5_Witness ==
    /\ last.kind = "remove" /\ ~last.wasActive
    /\ Range(lastElement.cls) \cap skeletonClasses # {}
    /\ DOMAIN cache # {}

\* C6: apply on a root that is not rendered (display none) leaves the root
\* and all its descendants unmodified, and the root is still inactive.
C6_HiddenRootUntouched ==
    (last.kind = "apply" /\ ~last.wasActive /\ lastElement.css.display = "none")
        => (~last.changed /\ ~isActive(lastElement))

\* the root of the call a step makes, before and after the step
calledBefore == nodeAt(doc, last'.uid)

calledAfter == nodeAt(doc', last'.uid)

calledOptions == mergeOptions(last'.options)

isPlaceholder(el) == "smart-skeleton-block" \in Range(el.cls)

hasPlaceholderContent(el) ==
    /\ el.text = 0
    /\ Len(el.kids) >= 1
    /\ \A i \in DOMAIN el.kids : isPlaceholder(el.kids[i])

isContentType(type) == type \in {"TEXT", "IMAGE", "ICON", "BUTTON"}

\* C7: with maxDepth = k >= 0, apply changes no element deeper than k below
\* the root (its content, classes and attributes stay as they were), and
\* every placeholder it creates is the child of an element at depth <= k;
\* with k = 0 no child of the root is modified.  (Descendants of an element
\* at depth <= k whose content is replaced leave the document with it.)
C7_DepthBound ==
    [][ last'.kind = "apply" =>
          \A u \in uidsOf(calledAfter) :
             depthOf(calledAfter, u) > calledOptions.maxDepth =>
                IF u \in uidsOf(calledBefore)
                THEN nodeAt(calledAfter, u) = nodeAt(calledBefore, u)
                ELSE /\ isPlaceholder(nodeAt(calledAfter, u))
                     /\ depthOf(calledAfter, u) = calledOptions.maxDepth + 1 ]_vars

C7_Witness ==
    /\ last.kind = "apply" /\ ~last.wasActive /\ last.changed
    /\ lastOptions.deep
    /\ "smart-skeleton-container" \in Range(lastElement.cls)
    /\ \E u \in uidsOf(lastElement) :
          /\ depthOf(lastElement, u) > lastOptions.maxDepth
          /\ ~shouldSkipElement(nodeAt(lastElement, u))
          /\ isContentType(detectNodeType(nodeAt(lastElement, u)))
          /\ ~hasPlaceholderContent(nodeAt(lastElement, u))

\* C8: with deep = false, apply on a visible root classified Container adds
\* the class smart-skeleton-container to that root.
C8_ShallowContainerMarked ==
    ( /\ last.kind = "apply" /\ ~last.wasActive
      /\ ~lastOptions.deep
      /\ ~shouldSkipElement(lastElement)
      /\ detectNodeType(lastElement) = "CONTAINER" )
        => "smart-skeleton-container" \in Range(lastElement.cls)

C10_ShallowProcessesChildren ==
    [][ ( /\ last'.kind = "apply" /\ ~last'.wasActive
          /\ ~calledOptions.deep /\ calledOptions.maxDepth >= 1
          /\ ~shouldSkipElement(calledBefore)
          /\ detectNodeType(calledBefore) = "CONTAINER" )
          => \A i \in DOMAIN calledBefore.kids :
                LET child == calledBefore.kids[i]
                    after == calledAfter.kids[i]
                IN  /\ Len(calledAfter.kids) = Len(calledBefore.kids)
                    /\ (~shouldSkipElement(child) /\ isContentType(detectNodeType(child)))
                          => hasPlaceholderContent(after)
                    /\ detectNodeType(child) = "CONTAINER"
                          => after.kids = child.kids ]_vars

\* C11: when apply is called with deep = true on an inactive root, every
\* descendant of the root that carries the attribute data-skeleton-ignore is
\* still in the document afterwards with its content, classes and attributes
\* as they were.
C11_IgnoreAttributeKeepsContent ==
    [][ ( /\ last'.kind = "apply" /\ ~last'.wasActive /\ ~last'.threw
          /\ calledOptions.deep )
          => \A u \in uidsOf(calledBefore) \ {last'.uid} :
                hasAttribute(nodeAt(calledBefore, u), "data-skeleton-ignore")
                   => ( /\ u \in uidsOf(calledAfter)
                        /\ nodeAt(calledAfter, u) = nodeAt(calledBefore, u) ) ]_vars

\* C12: the category detectNodeType returns for an element is the first match
\* of: media tag -> IMAGE; button tag or role=button -> BUTTON; svg/i tag or
\* class icon/fa/material-icons -> ICON; script/style/noscript -> IGNORE;
\* text and no element children -> TEXT; element children -> CONTAINER;
\* neither -> IGNORE.  An element that matches the media and the button rule
\* is IMAGE.
C12_ClassificationOrder ==
    last.kind = "classify" =>
       LET el == lastElement
           media == el.tag \in {"img", "picture", "video", "canvas"}
           button == el.tag = "button"
                     \/ ("role" \in DOMAIN el.attrs /\ el.attrs["role"] = "button")
           icon == el.tag \in {"svg", "i"}
                   \/ \E i \in DOMAIN el.cls : el.cls[i] \in {"icon", "fa", "material-icons"}
           ignored == el.tag \in {"script", "style", "noscript"}
           hasText == textLength(el) >= 1
           hasChildren == el.kids # <<>>
           expected == IF media THEN "IMAGE"
                       ELSE IF button THEN "BUTTON"
                       ELSE IF icon THEN "ICON"
                       ELSE IF ignored THEN "IGNORE"
                       ELSE IF hasText /\ ~hasChildren THEN "TEXT"
                       ELSE IF hasChildren THEN "CONTAINER"
                       ELSE "IGNORE"
       IN  /\ last.type = expected
           /\ (media /\ button) => last.type = "IMAGE"

C12_Witness ==
    /\ last.kind = "classify"
    /\ lastElement.tag = "img"
    /\ hasAttribute(lastElement, "role") /\ lastElement.attrs["role"] = "button"
    /\ Range(lastElement.cls) \cap {"icon", "fa", "material-icons"} # {}
    /\ last.type = "IMAGE"

\* C13 as stated: for a Text node with text length len >= 1 and snapshot
\* width w, createTextSkeletons makes min(5, max(1, ceil(len / floor(w / 8))))
\* lines, evaluated as JavaScript evaluates it (NaN for an unparsable w, a
\* division by zero is Infinity), and between 1 and 5 of them.
C13_LineCountFormula ==
    last.kind = "text" =>
       LET n == Len(last.lines)
           w == last.styles.width
           claimed == IF w = NaN THEN NaN
                      ELSE IF w \div 8 = 0 THEN 5
                      ELSE Min(5, Max(1, CeilDiv(last.len, w \div 8)))
       IN  n = claimed /\ n \in 1..5

\* C13, amended: the number of lines is between 1 and 5, and it is
\* min(5, max(1, ceil(len / floor(w / 8)))) where w is the snapshot width, or
\* 200 when the snapshot width is unparsable or zero; when w is below 8
\* (floor(w / 8) = 0) it is 5.
C13_LineCountWithFallback ==
    last.kind = "text" =>
       LET n == Len(last.lines)
           w == IF last.styles.width \in {NaN, 0} THEN 200 ELSE last.styles.width
       IN  /\ n \in 1..5
           /\ n = IF w \div 8 = 0 THEN 5
                  ELSE Min(5, Max(1, CeilDiv(last.len, w \div 8)))

C13_Witness ==
    /\ last.kind = "text"
    /\ last.styles.width = NaN
    /\ last.len = 26
    /\ Len(last.lines) = 2

\* C14: with randomize = false, every line made for a Text node, the last
\* one included, has the snapshot's width.
C14_UniformWidth ==
    (last.kind = "text" /\ ~last.randomize) =>
       \A i \in DOMAIN last.lines :
          /\ last.lines[i].inline.width = last.styles.width
          /\ ~last.lines[i].inline.pct

C14_Witness ==
    /\ last.kind = "text" /\ ~last.randomize
    /\ Len(last.lines) >= 2
    /\ last.styles.width = 200

\* C15: with randomize = true, of the n lines made for a Text node the first
\* n - 1 have a width between 60% and 100% and the last one a width between
\* 30% and 70%; a single line is the last one.
C15_RandomWidthRanges ==
    (last.kind = "text" /\ last.randomize) =>
       LET n == Len(last.lines)
       IN  \A i \in 1..n :
              LET line == last.lines[i].inline
              IN  /\ line.pct
                  /\ i < n => (60 <= line.width /\ line.width <= 100)
                  /\ i = n => (30 <= line.width /\ line.width <= 70)

C15_Witness ==
    /\ last.kind = "text" /\ last.randomize
    /\ Len(last.lines) >= 2
    /\ last.lines[1].inline.width > 70
    /\ last.lines[Len(last.lines)].inline.width < 60

C17_IconLikeButton ==
    ( /\ last.kind = "apply" /\ ~last.wasActive /\ ~last.threw
      /\ lastOptions.maxDepth >= 0
      /\ ~shouldSkipElement(lastElement)
      /\ detectNodeType(lastElement) = "ICON" )
        => ( /\ Len(lastElement.kids) = 1
             /\ "smart-skeleton-button" \in Range(lastElement.kids[1].cls)
             /\ "smart-skeleton-image" \notin Range(lastElement.kids[1].cls)
             /\ lastElement.kids[1].inline.aspect = <<>> )

\* the options the call would have been given had every field the argument
\* omits, or carries as undefined, been written out with its default
optionsWithDefaults(options) ==
    [f \in OptionFields |->
        IF f \in DOMAIN options /\ f \notin undefinedFields(options)
        THEN options[f] ELSE DEFAULT_OPTIONS[f]]

\* C18: apply with an options argument that omits fields, or carries them
\* as undefined, leaves the root and the cache as apply does when those
\* fields are given as theme 'light', randomize true, speed 'normal',
\* shimmer true, deep true, maxDepth 10 (under some outcome of Math.random).
C18_OmittedFieldsDefault ==
    [][ (last'.kind = "apply" /\ ~last'.threw) =>
          \E seed \in Seeds(optionsWithDefaults(last'.options)) :
             LET r == apply(calledBefore, optionsWithDefaults(last'.options), seed,
                            cache, nextUid)
             IN  calledAfter = r.node /\ cache' = r.cache ]_vars

\* C19: no call ends in an exception, and after a call its root does not
\* have a cache entry without being active.
C19_NoThrownFault ==
    last.kind \in {"apply", "remove"} =>
       ( /\ ~last.threw
         /\ last.uid \in DOMAIN cache => isActive(lastElement) )

\* C20: when other code changed the classes or attributes of a root between
\* its apply and its remove, the root's content, class list and attributes
\* without the reserved prefix are after remove what they were at apply.
C20_FullOverwrite ==
    (rt.st = "removed" /\ rt.touched) => rootView(nodeAt(doc, rt.uid)) = rt.view

\* C21: every apply made while its root is inactive creates one new cache
\* entry, for that root, holding the root's content at that moment; every
\* remove of an active root that has a cache entry leaves the root with the
\* content of that entry and deletes the entry.
C21_CacheLifecycle ==
    [][ /\ (last'.kind = "apply" /\ ~last'.wasActive) =>
              ( /\ last'.uid \notin DOMAIN cache
                /\ DOMAIN cache' = DOMAIN cache \cup {last'.uid}
                /\ cache'[last'.uid].html = innerHTML(calledBefore) )
        /\ (last'.kind = "remove" /\ last'.wasActive /\ last'.uid \in DOMAIN cache) =>
              ( /\ innerHTML(calledAfter) = cache[last'.uid].html
                /\ last'.uid \notin DOMAIN cache' ) ]_vars

\* C22: at every point of an apply entered on an inactive root: if the
\* root's class list or content differs from what it was at entry, the cache
\* holds the root's entry, with the content and classes of entry; if the
\* root is active, its cache entry exists; if the root's content (own or of a
\* descendant) differs from what it was at entry, the root is active and
\* cached; and from the point where the traversal is the next statement, the
\* root is active and cached with its content of entry.
C22_ApplyOrder ==
    (last.kind = "apply" /\ ~last.wasActive /\ "pc" \in DOMAIN last) =>
       LET el == lastElement
           cached == last.uid \in DOMAIN cache
           snapshotOfEntry == /\ cached
                              /\ cache[last.uid].html = last.entry.html
                              /\ cache[last.uid].classes = last.entry.cls
       IN  /\ (el.cls # last.entry.cls \/ innerHTML(el) # last.entry.html)
                 => snapshotOfEntry
           /\ isActive(el) => cached
           /\ innerHTML(el) # last.entry.html => (isActive(el) /\ cached)
           /\ \A i \in DOMAIN last.steps :
                 (last.steps[i] = "processElement" /\ last.pc >= i - 1)
                    => (isActive(el) /\ snapshotOfEntry)

C22_Witness ==
    /\ last.kind = "apply" /\ ~last.wasActive /\ "pc" \in DOMAIN last
    /\ last.pc = Len(last.steps) /\ last.steps # <<>>
    /\ innerHTML(lastElement) # last.entry.html
    /\ isActive(lastElement)
    /\ last.uid \in DOMAIN cache

\* C23: at no point of a remove entered on an active root is the root
\* inactive while the cache still holds its entry.
C23_RemoveOrder ==
    (last.kind = "remove" /\ last.wasActive /\ "pc" \in DOMAIN last) =>
       ~(~isActive(lastElement) /\ last.uid \in DOMAIN cache)

\* a step that is an apply on an inactive root and returns normally; its
\* root as apply hands it to processElement; the traversal under one outcome
\* of Math.random
freshApply == last'.kind = "apply" /\ ~last'.wasActive /\ ~last'.threw

enteredRoot == markAsSkeletonized(presentationClasses(calledBefore, calledOptions))

passOf(seed) == processElement(enteredRoot, calledOptions, 0, seed, nextUid, 0)

descendedRoot ==
    /\ freshApply
    /\ ~exceedsMaxDepth(0, calledOptions)
    /\ ~shouldSkipElement(calledBefore)
    /\ detectNodeType(calledBefore) = "CONTAINER"
    /\ calledOptions.deep

\* C24: when apply descends into a root with n element children, the
\* children come out as from one loop over them in document order, each
\* passed once to processElement at depth 1 (n below, at, above and at twice
\* the batch size of 20): the result of the batched recursion is the result
\* of the unbatched loop, and the direct children that get classified are
\* classified once each, in document order.
C24_BatchingPreservesOrder ==
    [][ descendedRoot =>
          \E seed \in Seeds(last'.options) :
             LET pass == passOf(seed)
                 loop == processBatch(enteredRoot.kids, calledOptions, 0, seed, nextUid, 0)
                 childUids == [i \in DOMAIN calledBefore.kids |-> calledBefore.kids[i].uid]
                 reached(u) == /\ ~exceedsMaxDepth(1, calledOptions)
                               /\ ~shouldSkipElement(nodeAt(calledBefore, u))
             IN  /\ calledAfter = pass.node
                 /\ calledAfter.kids = loop.kids
                 /\ Tail(pass.seen) = loop.seen
                 /\ SelectSeq(pass.seen, LAMBDA u : u \in Range(childUids))
                       = SelectSeq(childUids, reached) ]_vars

C24_Witness ==
    /\ last.kind = "apply" /\ ~last.wasActive /\ last.changed
    /\ "smart-skeleton-container" \in Range(lastElement.cls)
    /\ Len(lastElement.kids) = 41
    /\ \A i \in DOMAIN lastElement.kids : hasPlaceholderContent(lastElement.kids[i])

isHidden(el) == el.css.display = "none" \/ el.css.visibility = "hidden"

\* C25: when apply descends into a root, a child that is hidden,
\* or whose width and height are both below 5px, is left as it was with all
\* its descendants; every other child, one with a single dimension below
\* 5px included, is classified and processed (a Text, Image, Icon or Button
\* child has its content replaced, a Container child is marked).
C25_SkipsWhenBothSmall ==
    [][ (descendedRoot /\ ~exceedsMaxDepth(1, calledOptions)) =>
          \A i \in DOMAIN calledBefore.kids :
             LET child == calledBefore.kids[i]
                 after == calledAfter.kids[i]
                 skipped == \/ isHidden(child)
                            \/ ( /\ NumLess(child.css.width, 5)
                                 /\ NumLess(child.css.height, 5) )
                 type == detectNodeType(child)
             IN  /\ skipped => after = child
                 /\ (~skipped /\ isContentType(type)) => hasPlaceholderContent(after)
                 /\ (~skipped /\ type = "CONTAINER")
                       => "smart-skeleton-container" \in Range(after.cls) ]_vars

\* the content of `after` is nothing but blocks created from identity n on:
\* no text, and count children, each a childless placeholder of that shape
swappedFor(after, shape, counts, n) ==
    /\ after.text = 0
    /\ Len(after.kids) \in counts
    /\ \A i \in DOMAIN after.kids :
          /\ after.kids[i].uid >= n
          /\ isPlaceholder(after.kids[i])
          /\ shape \in Range(after.kids[i].cls)
          /\ after.kids[i].kids = <<>> /\ after.kids[i].text = 0

\* C26: after apply has processed a visible node within the depth bound (the
\* root, or a child of a root it descends into), a node that was classified
\* Text has as its whole content 1 to 5 line placeholders made by this call,
\* and a node that was classified Image, Icon or Button has as its whole
\* content one placeholder block made by this call; no earlier child or text
\* of the node is left.
C26_FullContentSwap ==
    [][ freshApply =>
          LET swapped(before, after) ==
                 LET type == detectNodeType(before)
                 IN  /\ type = "TEXT" =>
                           swappedFor(after, "smart-skeleton-text", 1..5, nextUid)
                     /\ type \in {"IMAGE", "ICON", "BUTTON"} =>
                           swappedFor(after, "smart-skeleton-block", {1}, nextUid)
          IN  /\ (~exceedsMaxDepth(0, calledOptions) /\ ~shouldSkipElement(calledBefore))
                    => swapped(calledBefore, calledAfter)
              /\ (descendedRoot /\ ~exceedsMaxDepth(1, calledOptions)) =>
                    \A i \in DOMAIN calledBefore.kids :
                       ~shouldSkipElement(calledBefore.kids[i])
                          => swapped(calledBefore.kids[i], calledAfter.kids[i]) ]_vars

C26_Witness ==
    /\ last.kind = "apply" /\ ~last.wasActive /\ last.changed
    /\ \E i, j \in DOMAIN lastElement.kids :
          /\ lastElement.kids[i].tag = "button"
          /\ swappedFor(lastElement.kids[i], "smart-skeleton-button", {1}, 0)
          /\ lastElement.kids[j].tag = "p"
          /\ swappedFor(lastElement.kids[j], "smart-skeleton-text", {5}, 0)

\* C27: one apply classifies finitely many nodes and each at most once: the
\* nodes it classifies, in order, are nodes the root held before the call,
\* without repetition, so at most as many as the subtree has nodes; this
\* also with maxDepth given as undefined, where no depth stops the descent.
C27_EachNodeClassifiedOnce ==
    [][ freshApply =>
          \E seed \in Seeds(last'.options) :
          \E pass \in {passOf(seed)} :
             /\ calledAfter = pass.node
             /\ Range(pass.seen) \subseteq uidsOf(calledBefore)
             /\ \A i, j \in DOMAIN pass.seen :
                   pass.seen[i] = pass.seen[j] => i = j
             /\ Len(pass.seen) <= Cardinality(uidsOf(calledBefore)) ]_vars

C27_Witness ==
    /\ last.kind = "apply" /\ ~last.wasActive /\ last.changed
    /\ "undefined" \in DOMAIN last.options
    /\ \E i \in DOMAIN lastElement.kids :
          /\ "smart-skeleton-container" \in Range(lastElement.kids[i].cls)
          /\ Len(lastElement.kids[i].kids) = 2
          /\ \A j \in DOMAIN lastElement.kids[i].kids :
                hasPlaceholderContent(lastElement.kids[i].kids[j])

\* C28: no placeholder that an apply creates is itself visited by that
\* apply: every node of the root's subtree that was not there before the
\* call is a placeholder as it was built (no children, no text) and is not
\* among the nodes the call classified, which are all nodes of the subtree
\* as it was before the call.
C28_PlaceholdersNotVisited ==
    [][ freshApply =>
          \E seed \in Seeds(last'.options) :
          \E pass \in {passOf(seed)} :
             /\ calledAfter = pass.node
             /\ Range(pass.seen) \subseteq uidsOf(calledBefore)
             /\ \A u \in uidsOf(calledAfter) \ uidsOf(calledBefore) :
                   /\ u \notin Range(pass.seen)
                   /\ isPlaceholder(nodeAt(calledAfter, u))
                   /\ nodeAt(calledAfter, u).kids = <<>>
                   /\ nodeAt(calledAfter, u).text = 0 ]_vars

C28_Witness ==
    /\ last.kind = "apply" /\ ~last.wasActive /\ last.changed
    /\ Len(lastElement.kids) = 5
    /\ \A i \in DOMAIN lastElement.kids :
          /\ hasPlaceholderContent(lastElement.kids[i])
          /\ \A j \in DOMAIN lastElement.kids[i].kids :
                lastElement.kids[i].kids[j].kids = <<>>
    /\ Len(lastElement.kids[1].kids) >= 2

\* C30: a deep apply leaves the own direct text of a Container in place:
\* the root it descends into, and each child it reaches and classifies
\* Container, have after the call the direct text they had before, and the
\* same element children in the same order, which are what was processed.
C30_ContainerTextKept ==
    [][ descendedRoot =>
          LET kept(before, after) ==
                 /\ after.text = before.text
                 /\ Len(after.kids) = Len(before.kids)
                 /\ \A i \in DOMAIN before.kids : after.kids[i].uid = before.kids[i].uid
          IN  /\ kept(calledBefore, calledAfter)
              /\ \A i \in DOMAIN calledBefore.kids :
                    (/\ ~exceedsMaxDepth(1, calledOptions)
                     /\ ~shouldSkipElement(calledBefore.kids[i])
                     /\ detectNodeType(calledBefore.kids[i]) = "CONTAINER")
                       => kept(calledBefore.kids[i], calledAfter.kids[i]) ]_vars

C30_Witness ==
    /\ last.kind = "apply" /\ ~last.wasActive /\ last.changed
    /\ "smart-skeleton-container" \in Range(lastElement.cls)
    /\ lastElement.text = 7
    /\ hasPlaceholderContent(lastElement.kids[1])
    /\ "smart-skeleton-container" \in Range(lastElement.kids[2].cls)
    /\ lastElement.kids[2].text = 5
    /\ \A j \in DOMAIN lastElement.kids[2].kids :
          hasPlaceholderContent(lastElement.kids[2].kids[j])

\* a call step leaves everything outside the subtree of its element r as it
\* was: with r's old subtree put back the document is the old document, and
\* every cache entry but r's is the same
unchangedOutsideRoot ==
    /\ replaceAt(doc', last'.uid, calledBefore) = doc
    /\ \A u \in (DOMAIN cache \cup DOMAIN cache') \ {last'.uid} :
          u \in DOMAIN cache /\ u \in DOMAIN cache' /\ cache'[u] = cache[u]

\* C29: apply(r) and remove(r) change only r, the nodes of r's subtree and
\* r's cache entry; every element that is neither r nor in r's subtree,
\* document.head among them, has the content, classes, attributes, active
\* flag and cache entry it had.
C29_Locality ==
    [][ nOps' # nOps => unchangedOutsideRoot /\ cssInjected' = cssInjected ]_vars

\* C29, amended: apply(r) and remove(r) change only r, the nodes of r's
\* subtree and r's cache entry, except that the first apply also appends
\* the presentation style element to document.head; every other element
\* that is neither r nor in r's subtree has the content, classes,
\* attributes, active flag and cache entry it had.
C29_LocalityButStyleInjection ==
    [][ nOps' # nOps =>
          /\ unchangedOutsideRoot
          /\ cssInjected' # cssInjected =>
                last'.kind = "apply" /\ ~cssInjected /\ cssInjected' ]_vars

C29_Witness ==
    /\ last.kind = "remove" /\ last.wasActive /\ last.changed
    /\ cssInjected
    /\ \E u \in DOMAIN cache :
          /\ u \in uidsOf(doc) \ uidsOf(lastElement)
          /\ isActive(nodeAt(doc, u))
          /\ last.uid \notin uidsOf(nodeAt(doc, u))

====
